---- MODULE Spec2Model ----
(***************************************************************************)
(* A model of the skill-sequencing rollout loop (evaluate_comde) and of    *)
(* the skill-segmented replay buffer (ComdeBuffer) of ComDe.               *)
(*                                                                         *)
(*   Spec            the rollout loop of comde_eval_mlp.py                 *)
(*   SpecPreprocess  preprocess_h5py_trajectory applied to one trajectory  *)
(*   SpecBuffer      add_episodes_from_h5py and _get_samples               *)
(*   SpecIngest      add_episodes_from_h5py alone                          *)
(***************************************************************************)
EXTENDS Integers, Sequences, FiniteSets

VARIABLES
    \* ---- evaluate_comde (comde_eval_mlp.py) ----
    use_optimal_next_skill,     \* argument, line 19
    termination_pred_interval,  \* argument, line 18
    target_skills,              \* line 40: the skill sequence that is executed
    env_script,                 \* how the (external) environment hands out rewards
    pc,                         \* "loop" while the while-loop runs, "returned" after it
    cur_skill_pos,              \* line 26
    timestep,                   \* line 28
    done,                       \* line 31
    observation,                \* line 51 / 103
    first_obs_of_skill,         \* line 52
    skill,                      \* line 54 / 78 / 90
    ep_skills_last,             \* ep_skills[-1], lines 58 / 107
    ep_rewards_len,             \* len(ep_rewards), line 111
    ep_rewards_last,            \* ep_rewards[-1], line 111
    term_call,                  \* the termination.predict calls of the last iteration (0 or 1)
    policy_call,                \* the low_policy.predict calls of the last iteration
    skill_start_obs,            \* history: observation at which the skill at cur_skill_pos began
    \* ---- ComdeBuffer.preprocess_h5py_trajectory on one trajectory ----
    trajectory,                 \* the h5py record handed in
    dataset,                    \* what it returned (or raised)
    \* ---- ComdeBuffer ----
    subseq_len,                 \* constructor argument, line 25
    episodes,                   \* self.episodes
    episode_lengths,            \* self.episode_lengths
    min_episode_length,         \* self.min_episode_length
    max_episode_length,         \* self.max_episode_length
    pending,                    \* paths the running add_episodes_from_h5py has still to load
    last_load,                  \* the file the latest call opened last, and len(episodes) before
    error,                      \* the exception the latest add_episodes_from_h5py raised, if any
    sample                      \* what the latest call returned if it was _get_samples

rolloutVars == <<use_optimal_next_skill, termination_pred_interval, target_skills,
                 env_script, pc, cur_skill_pos, timestep, done, observation,
                 first_obs_of_skill, skill, ep_skills_last, ep_rewards_len,
                 ep_rewards_last, term_call, policy_call, skill_start_obs>>
preprocessVars == <<trajectory, dataset>>
bufferVars == <<subseq_len, episodes, episode_lengths, min_episode_length,
                max_episode_length, pending, last_load, error, sample>>
vars == <<rolloutVars, preprocessVars, bufferVars>>

None == "None"

Min(a, b) == IF a <= b THEN a ELSE b
Max(a, b) == IF a >= b THEN a ELSE b

(***************************************************************************)
(* Bounds of the model.                                                    *)
(***************************************************************************)
MaxSteps == 10
MaxSkills == 5
MaxInterval == 3
MaxObs == 1
MaxDoneLen == 10
MaxTrajLen == 5
MaxSkillId == 2
MaxSubseqLen == 2
MaxEpisodeLen == 2
MaxSkillCount == 2
MaxMissing == 1
MaxEpisodes == 2
MaxBatch == 2

(***************************************************************************)
(* The rollout loop: evaluate_comde.                                       *)
(***************************************************************************)
Observations == 0..MaxObs
Rewards == {-1, 0, 1}
EnvScripts == {"free", "odd", "even"}

\* The reward env.step returns for the step that makes timestep equal to t.
\* "free": any reward; "odd"/"even": a positive reward on every other step.
EnvRewards(script, t) ==
    CASE script = "free" -> Rewards
      [] script = "odd"  -> IF t % 2 = 1 THEN {1} ELSE {0}
      [] script = "even" -> IF t % 2 = 0 THEN {1} ELSE {0}

\* source_skills of shape [1, M, d]; a skill vector is named by its position.
SkillSequences == {[i \in 1..n |-> i] : n \in 1..MaxSkills}

n_max_skills == Len(target_skills)

\* target_skills[:, pos] with a 0-based pos
SkillAt(pos) == target_skills[pos + 1]

\* line 74 (the Mutant variant: >= in place of >)
MaybeSkillDoneMutant(n_rewards, last_reward) == n_rewards > 0 /\ last_reward >= 0
MaybeSkillDone(n_rewards, last_reward) == n_rewards > 0 /\ last_reward > 0

\* line 81 (Python's % of a positive divisor is never negative, as is TLA+'s;
\* the Mutant variant: timestep in place of timestep - 1)
TerminationDueMutant(t, interval) == (t % interval) = 0
TerminationDue(t, interval) == ((t - 1) % interval) = 0

\* lines 77 and 89 (the Mutant variant: wraps around instead of saturating)
NextSkillPosMutant(pos, n) == (pos + 1) % n
NextSkillPos(pos, n) == Min(pos + 1, n - 1)

\* lines 67 and 93: input_skills is built from ep_skills before the advancement
\* decision, and its last entry is what low_policy.predict receives (the Mutant
\* variant: the skill chosen by this iteration's decision)
PolicySkillInputMutant(last_of_ep_skills, cur_skill) == cur_skill
PolicySkillInput(last_of_ep_skills, cur_skill) == last_of_ep_skills

InitRollout ==
    /\ use_optimal_next_skill \in BOOLEAN
    /\ termination_pred_interval \in 1..MaxInterval
    /\ target_skills \in SkillSequences
    /\ env_script \in EnvScripts
    /\ pc = "loop"
    /\ cur_skill_pos = 0
    /\ timestep = 0
    /\ done = FALSE
    /\ observation \in Observations                 \* env.reset()
    /\ first_obs_of_skill = observation
    /\ skill = target_skills[1]
    /\ ep_skills_last = skill
    /\ ep_rewards_len = 0
    /\ ep_rewards_last = None
    /\ term_call = <<>>
    /\ policy_call = <<>>
    /\ skill_start_obs = observation

\* One iteration of the while loop, lines 61-113.
LoopIteration ==
    /\ pc = "loop"
    /\ ~done
    /\ timestep < MaxSteps
    /\ \E pred \in BOOLEAN, obs \in Observations, d \in BOOLEAN,
          reward \in EnvRewards(env_script, timestep + 1) :
        LET query == (~use_optimal_next_skill)
                     /\ TerminationDue(timestep, termination_pred_interval)
            maybe_skill_done ==
                IF use_optimal_next_skill
                THEN MaybeSkillDone(ep_rewards_len, ep_rewards_last)
                ELSE query /\ pred
            pos == IF maybe_skill_done
                   THEN NextSkillPos(cur_skill_pos, n_max_skills)
                   ELSE cur_skill_pos
            new_skill == IF maybe_skill_done THEN SkillAt(pos) ELSE skill
        IN  /\ term_call' = IF query
                            THEN << [observations |-> observation,
                                     first_observations |-> first_obs_of_skill,
                                     skills |-> skill,
                                     answer |-> pred] >>
                            ELSE <<>>
            /\ cur_skill_pos' = pos
            /\ skill' = new_skill
            /\ policy_call' = << [observations |-> observation,
                                  skills |-> PolicySkillInput(ep_skills_last, new_skill),
                                  timestep |-> timestep] >>
            /\ observation' = obs
            /\ done' = d
            /\ timestep' = timestep + 1
            /\ ep_skills_last' = new_skill
            /\ ep_rewards_len' = ep_rewards_len + 1
            /\ ep_rewards_last' = reward
            /\ skill_start_obs' = IF pos # cur_skill_pos THEN observation
                                                         ELSE skill_start_obs
    /\ UNCHANGED <<use_optimal_next_skill, termination_pred_interval, target_skills,
                   env_script, pc, first_obs_of_skill>>
    /\ UNCHANGED <<preprocessVars, bufferVars>>

\* lines 115-125: the loop has ended and the histories are returned
Return ==
    /\ pc = "loop"
    /\ done
    /\ pc' = "returned"
    /\ UNCHANGED <<use_optimal_next_skill, termination_pred_interval, target_skills,
                   env_script, cur_skill_pos, timestep, done, observation,
                   first_obs_of_skill, skill, ep_skills_last, ep_rewards_len,
                   ep_rewards_last, term_call, policy_call, skill_start_obs>>
    /\ UNCHANGED <<preprocessVars, bufferVars>>


(***************************************************************************)
(* ComdeBuffer.preprocess_h5py_trajectory.                                 *)
(*                                                                         *)
(* A trajectory record is [keys, observations, skills_idxs, skills_done,   *)
(* source_skills, target_skills]: keys are the names the h5py file holds;  *)
(* arrays are sequences, the array index i being position i + 1.           *)
(***************************************************************************)
MUST_LOADED_COMPONENTS ==
    {"observations", "actions", "skills_idxs", "skills_order", "skills_done",
     "source_skills", "target_skills"}

n_aug == 4

Zeros(L) == [i \in 1..L |-> 0]

\* A bound of a Python slice on an array of length L: a negative bound counts
\* from the end, and the result is clipped to 0..L.
SliceBound(b, L) == IF b < 0 THEN Max(b + L, 0) ELSE Min(b, L)

\* arr[start:stop] = v (line 132), start and stop being 0-based
SliceAssign(arr, start, stop, v) ==
    [i \in 1..Len(arr) |->
        IF SliceBound(start, Len(arr)) <= i - 1 /\ i - 1 < SliceBound(stop, Len(arr))
        THEN v ELSE arr[i]]

\* line 128: np.where(skills_done == 1)[0], the 0-based indices in ascending order
RECURSIVE DoneTimes(_, _)
DoneTimes(skills_done, i) ==
    IF i > Len(skills_done) THEN <<>>
    ELSE (IF skills_done[i] = 1 THEN <<i - 1>> ELSE <<>>)
         \o DoneTimes(skills_done, i + 1)

\* the window of line 132 for one done time
DoneWindow(arr, t) == SliceAssign(arr, t - n_aug, t + n_aug + 1, 1)

\* lines 131-132: the loop over done_times, from its j-th entry on
RECURSIVE AugmentLoop(_, _, _)
AugmentLoop(augmented, done_times, j) ==
    IF j > Len(done_times) THEN augmented
    ELSE AugmentLoop(DoneWindow(augmented, done_times[j]), done_times, j + 1)

\* lines 127-132
AugmentedSkillsDone(skills_done) ==
    AugmentLoop(skills_done, DoneTimes(skills_done, 1), 1)

\* lines 122-123: the segment start after looking at array index i (0-based)
\* (the Mutant variant: the boundary is placed one index early)
FirstObsPosMutant(skills_idxs, first_obs_pos, i) ==
    IF skills_idxs[i] # skills_idxs[i + 1] THEN i - 1 ELSE first_obs_pos
FirstObsPos(skills_idxs, first_obs_pos, i) ==
    IF skills_idxs[i] # skills_idxs[i + 1] THEN i ELSE first_obs_pos

\* lines 121-124: the loop, from array index i (0-based) on
RECURSIVE FirstObsLoop(_, _, _, _, _)
FirstObsLoop(first_observations, first_obs_pos, i, skills_idxs, observations) ==
    IF i > Len(observations) - 1 THEN first_observations
    ELSE LET pos == FirstObsPos(skills_idxs, first_obs_pos, i)
         IN  FirstObsLoop([first_observations EXCEPT ![i + 1] = observations[pos + 1]],
                          pos, i + 1, skills_idxs, observations)

\* lines 117-124
FirstObservations(skills_idxs, observations) ==
    FirstObsLoop([Zeros(Len(observations)) EXCEPT ![1] = observations[1]],
                 0, 1, skills_idxs, observations)

\* lines 85-86
NextObservations(observations) ==
    [i \in 1..Len(observations) |->
        IF i < Len(observations) THEN observations[i + 1] ELSE 0]

\* lines 103-106: the demonstrations' skills, one after the other
RECURSIVE FlattenSourceSkills(_)
FlattenSourceSkills(demos) ==
    IF demos = <<>> THEN <<>> ELSE Head(demos) \o FlattenSourceSkills(Tail(demos))

\* line 82: the set the assertion's message names
UnderQualifiedMessage(keys) == keys \ MUST_LOADED_COMPONENTS

\* lines 81-151: the dataset returned, or the exception raised
preprocess_h5py_trajectory(traj) ==
    IF ~(MUST_LOADED_COMPONENTS \subseteq traj.keys)
    THEN [status |-> "raised", exception |-> "AssertionError",
          message |-> "Under qualified dataset. Please fill",
          fields |-> UnderQualifiedMessage(traj.keys)]
    ELSE IF "infos" \in traj.keys
    THEN [status |-> "raised", exception |-> "AssertionError",
          message |-> "undefined info type", fields |-> {}]
    ELSE IF "operator" \notin traj.keys
    THEN [status |-> "raised", exception |-> "KeyError",
          message |-> "operator", fields |-> {}]
    ELSE [status |-> "ok",
          observations |-> traj.observations,
          next_observations |-> NextObservations(traj.observations),
          source_skills |-> FlattenSourceSkills(traj.source_skills),
          target_skills |-> <<traj.target_skills>>,
          first_observations |-> FirstObservations(traj.skills_idxs, traj.observations),
          skills_done |-> AugmentedSkillsDone(traj.skills_done),
          skills_idxs |-> traj.skills_idxs]

ValidKeys == MUST_LOADED_COMPONENTS \cup {"operator"}

\* trajectories whose skills_done varies
DilationInputs ==
    {[keys |-> ValidKeys, observations |-> Zeros(Len(sd)), skills_idxs |-> Zeros(Len(sd)),
      skills_done |-> sd, source_skills |-> << <<1>> >>, target_skills |-> <<1>>] :
        sd \in UNION {[1..L -> {0, 1}] : L \in 1..MaxDoneLen}}

\* observations that tell the array indices apart, wholly or in part
ObservationArrays(L) == {[i \in 1..L |-> i], [i \in 1..L |-> i % 2]}

\* trajectories whose skill segments vary
SegmentationInputs ==
    {[keys |-> ValidKeys, observations |-> r[2], skills_idxs |-> r[1],
      skills_done |-> Zeros(Len(r[1])), source_skills |-> << <<1>> >>, target_skills |-> <<1>>] :
        r \in UNION {[1..L -> 0..MaxSkillId] \X ObservationArrays(L) : L \in 1..MaxTrajLen}}

NoDataset == [status |-> "none"]

InitPreprocess ==
    /\ trajectory \in DilationInputs \cup SegmentationInputs
    /\ dataset = NoDataset

\* dataset = self.preprocess_h5py_trajectory(trajectory, language_guidance)
Preprocess ==
    /\ dataset = NoDataset
    /\ dataset' = preprocess_h5py_trajectory(trajectory)
    /\ UNCHANGED <<trajectory, rolloutVars, bufferVars>>


(***************************************************************************)
(* SourceTargetSkillContainedEpisode.  target_skills keeps the leading     *)
(* axis of length 1 that line 108 of comde_buffer.py gives it; its skills  *)
(* are counted and padded along the second axis.                           *)
(***************************************************************************)
\* episode.add_from_dict(dataset), with what len(episode) and the skill counts are
EpisodeFromDict(d) ==
    [length |-> Len(d.observations),
     source_skills |-> d.source_skills,
     target_skills |-> d.target_skills,
     n_source_skills |-> Len(d.source_skills),
     n_target_skills |-> Len(d.target_skills[1])]

\* zero-padding of a skill sequence up to n entries
ZeroPad(skills, n) ==
    IF Len(skills) >= n THEN skills
    ELSE skills \o [i \in 1..(n - Len(skills)) |-> 0]

\* ep.set_zeropaddings(n_padding, max_possible_skills)
SetZeropaddings(ep, n_padding, max_possible_skills) ==
    [ep EXCEPT !.source_skills = ZeroPad(@, max_possible_skills),
               !.target_skills = <<ZeroPad(@[1], max_possible_skills)>>]

(***************************************************************************)
(* ComdeBuffer.add_episodes_from_h5py and ComdeBuffer._get_samples.        *)
(***************************************************************************)
\* min(...) and max(...) of a non-empty list
SeqMin(q) == CHOOSE x \in {q[i] : i \in DOMAIN q} : \A i \in DOMAIN q : x <= q[i]
SeqMax(q) == CHOOSE x \in {q[i] : i \in DOMAIN q} : \A i \in DOMAIN q : x >= q[i]

\* lines 67-69 (the Mutant variant: the target skills are left out)
MaxPossibleSkillsMutant(eps) == SeqMax([i \in DOMAIN eps |-> eps[i].n_source_skills])
MaxPossibleSkills(eps) ==
    Max(SeqMax([i \in DOMAIN eps |-> eps[i].n_source_skills]),
        SeqMax([i \in DOMAIN eps |-> eps[i].n_target_skills]))

\* lines 71-74
PadAll(eps, n_padding) ==
    [i \in DOMAIN eps |-> SetZeropaddings(eps[i], n_padding, MaxPossibleSkills(eps))]

\* np.random.randint(low, high) of line 162: the values it can return; none
\* when it raises ValueError (low >= high)
RandInt(low, high) == IF low >= high THEN {} ELSE low..(high - 1)

\* skill vectors are named 1, 2, ...; 0 is the zero vector of the padding
SkillIds(n) == [i \in 1..n |-> i]

\* source_skills groups: n skills in one demonstration, or one in each of n
SourceSkillGroups ==
    {<<SkillIds(n)>> : n \in 1..MaxSkillCount}
        \cup {[i \in 1..n |-> <<i>>] : n \in 1..MaxSkillCount}
TargetSkillArrays == {SkillIds(n) : n \in 1..MaxSkillCount}

\* the key sets that lack at most MaxMissing required fields
KeySets ==
    {(MUST_LOADED_COMPONENTS \ missing) \cup extra :
        missing \in {m \in SUBSET MUST_LOADED_COMPONENTS : Cardinality(m) <= MaxMissing},
        extra \in SUBSET {"operator", "infos"}}

\* the files a path can name: any key set with one fixed content, or a complete
\* record whose length and skills vary
TrajectoryFiles ==
    {[keys |-> k, observations |-> Zeros(1), skills_idxs |-> Zeros(1),
      skills_done |-> Zeros(1), source_skills |-> << <<1>> >>, target_skills |-> <<1>>] :
        k \in KeySets}
    \cup
    {[keys |-> ValidKeys, observations |-> Zeros(L), skills_idxs |-> Zeros(L),
      skills_done |-> Zeros(L), source_skills |-> src, target_skills |-> tgt] :
        L \in 1..MaxEpisodeLen, src \in SourceSkillGroups, tgt \in TargetSkillArrays}

InitBuffer ==
    /\ subseq_len \in 1..MaxSubseqLen
    /\ episodes = <<>>
    /\ episode_lengths = <<>>
    /\ min_episode_length = None
    /\ max_episode_length = None
    /\ pending = 0
    /\ last_load = <<>>
    /\ error = <<>>
    /\ sample = <<>>

\* add_episodes_from_h5py is called with n paths: lines 48-52, and lines 65-74
\* when trajectory_paths is empty
AddEpisodesFromH5py ==
    /\ pending = 0
    /\ \E n \in 0..MaxEpisodes :
        /\ Len(episodes) + n <= MaxEpisodes
        /\ IF n > 0
           THEN /\ pending' = n
                /\ error' = <<>>
                /\ UNCHANGED <<episodes, min_episode_length, max_episode_length>>
           ELSE IF episode_lengths = <<>>
           THEN /\ error' = << [status |-> "raised", exception |-> "ValueError",
                                message |-> "min() arg is an empty sequence",
                                fields |-> {}] >>
                /\ UNCHANGED <<pending, episodes, min_episode_length,
                               max_episode_length>>
           ELSE /\ error' = <<>>
                /\ min_episode_length' = SeqMin(episode_lengths)
                /\ max_episode_length' = SeqMax(episode_lengths)
                /\ episodes' = PadAll(episodes, subseq_len)
                /\ UNCHANGED pending
    /\ last_load' = <<>>
    /\ sample' = <<>>
    /\ UNCHANGED <<subseq_len, episode_lengths>>
    /\ UNCHANGED <<rolloutVars, preprocessVars>>

\* lines 56-63 for the next path, and lines 65-74 after the last one
LoadTrajectory ==
    /\ pending > 0
    /\ \E file \in TrajectoryFiles :
        LET d == preprocess_h5py_trajectory(file)
            eps == Append(episodes, EpisodeFromDict(d))
            lens == Append(episode_lengths, EpisodeFromDict(d).length)
        IN  /\ last_load' = << [file |-> file, n_episodes |-> Len(episodes)] >>
            /\ IF d.status = "raised"
               THEN /\ error' = <<d>>
                    /\ pending' = 0
                    /\ UNCHANGED <<episodes, episode_lengths, min_episode_length,
                                   max_episode_length>>
               ELSE /\ error' = <<>>
                    /\ pending' = pending - 1
                    /\ episode_lengths' = lens
                    /\ IF pending = 1
                       THEN /\ min_episode_length' = SeqMin(lens)
                            /\ max_episode_length' = SeqMax(lens)
                            /\ episodes' = PadAll(eps, subseq_len)
                       ELSE /\ episodes' = eps
                            /\ UNCHANGED <<min_episode_length, max_episode_length>>
    /\ UNCHANGED <<subseq_len, sample>>
    /\ UNCHANGED <<rolloutVars, preprocessVars>>

\* lines 160-173: the start indices drawn for the episodes at batch_inds
GetSamples ==
    /\ pending = 0
    /\ episodes # <<>>
    /\ \E b \in 1..MaxBatch :
       \E batch_inds \in [1..b -> 1..Len(episodes)] :
        LET threshes == [i \in 1..b |-> episodes[batch_inds[i]].length - subseq_len]
        IN  IF \E i \in 1..b : RandInt(0, threshes[i]) = {}
            THEN sample' = << [status |-> "raised", exception |-> "ValueError",
                               batch_inds |-> batch_inds, start_idxs |-> <<>>] >>
            ELSE \E start_idxs \in [1..b -> 0..MaxEpisodeLen] :
                    /\ \A i \in 1..b : start_idxs[i] \in RandInt(0, threshes[i])
                    /\ sample' = << [status |-> "ok", exception |-> None,
                                     batch_inds |-> batch_inds,
                                     start_idxs |-> start_idxs] >>
    /\ last_load' = <<>>
    /\ UNCHANGED <<subseq_len, episodes, episode_lengths, min_episode_length,
                   max_episode_length, pending, error>>
    /\ UNCHANGED <<rolloutVars, preprocessVars>>

(***************************************************************************)
(* The specifications.  Each runs one part of the program; the variables   *)
(* of the other parts keep a fixed value.                                  *)
(***************************************************************************)
IdleRollout ==
    /\ use_optimal_next_skill = FALSE
    /\ termination_pred_interval = 1
    /\ target_skills = <<1>>
    /\ env_script = "free"
    /\ pc = "returned"
    /\ cur_skill_pos = 0
    /\ timestep = 0
    /\ done = TRUE
    /\ observation = 0
    /\ first_obs_of_skill = 0
    /\ skill = 1
    /\ ep_skills_last = 1
    /\ ep_rewards_len = 0
    /\ ep_rewards_last = None
    /\ term_call = <<>>
    /\ policy_call = <<>>
    /\ skill_start_obs = 0

IdlePreprocess == trajectory = <<>> /\ dataset = NoDataset

IdleBuffer ==
    /\ subseq_len = 0
    /\ episodes = <<>>
    /\ episode_lengths = <<>>
    /\ min_episode_length = None
    /\ max_episode_length = None
    /\ pending = 0
    /\ last_load = <<>>
    /\ error = <<>>
    /\ sample = <<>>

\* evaluate_comde
Init == InitRollout /\ IdlePreprocess /\ IdleBuffer
Next == LoopIteration \/ Return
Spec == Init /\ [][Next]_vars

\* preprocess_h5py_trajectory on one trajectory
PreprocessInit == IdleRollout /\ InitPreprocess /\ IdleBuffer
SpecPreprocess == PreprocessInit /\ [][Preprocess]_vars

\* the buffer: ingestion and sampling
BufferInit == IdleRollout /\ IdlePreprocess /\ InitBuffer
NextBuffer == AddEpisodesFromH5py \/ LoadTrajectory \/ GetSamples
SpecBuffer == BufferInit /\ [][NextBuffer]_vars

\* the buffer: ingestion alone
NextIngest == AddEpisodesFromH5py \/ LoadTrajectory
SpecIngest == BufferInit /\ [][NextIngest]_vars
(***************************************************************************)
(* Claims about the rollout loop.                                          *)
(***************************************************************************)
\* A step of the behaviour that is one iteration of the while loop.
IsIteration == timestep' = timestep + 1

\* C1: in both modes and after any sequence of environment steps
\* 0 <= cur_skill_pos <= n_max_skills - 1; cur_skill_pos never decreases, grows
\* by at most 1 per loop iteration, and once it equals n_max_skills - 1 it stays
\* there for every remaining step.
C1_SkillPosSaturates ==
    /\ [](cur_skill_pos \in 0..(n_max_skills - 1))
    /\ [][ /\ cur_skill_pos' >= cur_skill_pos
           /\ cur_skill_pos' <= cur_skill_pos + 1
           /\ (cur_skill_pos = n_max_skills - 1
                  => cur_skill_pos' = n_max_skills - 1) ]_vars

\* C1 witness: the pointer already stood on the last of several skills when an
\* iteration asked to advance again, and it is still on the last skill.
C1_Witness ==
    /\ n_max_skills >= 2
    /\ cur_skill_pos = n_max_skills - 1
    /\ policy_call # <<>>
    /\ policy_call[1].skills = target_skills[n_max_skills]
    /\ IF use_optimal_next_skill
       THEN env_script = "odd" /\ n_max_skills = 2 /\ timestep = 4
       ELSE term_call # <<>> /\ term_call[1].answer

\* C2: in oracle mode the skill index advances (saturating at n_max_skills - 1)
\* in a loop iteration iff a previous step exists and its reward was strictly
\* positive, so never in the first iteration; with 5 target skills and a
\* positive reward on every other step the index has advanced exactly 4 times
\* after 9 steps and then holds at 4.
C2_OracleAdvance ==
    /\ [][ (use_optimal_next_skill /\ IsIteration) =>
             cur_skill_pos' =
                IF ep_rewards_len > 0 /\ ep_rewards_last \in {1}
                THEN Min(cur_skill_pos + 1, n_max_skills - 1)
                ELSE cur_skill_pos ]_vars
    /\ []( (use_optimal_next_skill /\ timestep <= 1) => cur_skill_pos = 0 )
    /\ []( ( /\ use_optimal_next_skill
             /\ n_max_skills = 5
             /\ env_script \in {"odd", "even"}
             /\ timestep >= 9 ) => cur_skill_pos = 4 )

\* C2 witness: 5 skills, a positive reward on every other step, 10 steps taken.
C2_Witness ==
    /\ use_optimal_next_skill
    /\ n_max_skills = 5
    /\ env_script = "even"
    /\ timestep = 10
    /\ cur_skill_pos = 4

\* C3: in learned mode the termination detector is queried in exactly the loop
\* iterations where (timestep - 1) % termination_pred_interval = 0, and the
\* skill index advances only in such an iteration and only on a positive
\* prediction, whatever the rewards; in oracle mode it is never queried.
C3_ExclusivePolicies ==
    [][ IsIteration =>
          IF use_optimal_next_skill
          THEN term_call' = <<>>
          ELSE /\ (term_call' # <<>>)
                     <=> ((timestep - 1) % termination_pred_interval = 0)
               /\ cur_skill_pos' =
                     IF term_call' # <<>> /\ term_call'[1].answer
                     THEN Min(cur_skill_pos + 1, n_max_skills - 1)
                     ELSE cur_skill_pos ]_vars

\* C3 witness: learned mode with interval 3; the query of the iteration at
\* timestep 4 was positive and advanced the index although the last reward
\* before it was not positive.
C3_Witness ==
    /\ ~use_optimal_next_skill
    /\ termination_pred_interval = 3
    /\ timestep = 5
    /\ term_call # <<>>
    /\ term_call[1].answer
    /\ cur_skill_pos >= 1
    /\ policy_call[1].skills # skill

\* C4: in learned mode every query of the termination detector receives as
\* first_observations the observation recorded when the skill at cur_skill_pos
\* began: after an advance, the observation at which that advance happened.
C4_FirstObsOfCurrentSkill ==
    [][ (IsIteration /\ term_call' # <<>>) =>
            term_call'[1].first_observations = skill_start_obs ]_vars

\* C4 witness: a query made after the skill index has advanced.
C4_Witness ==
    /\ term_call # <<>>
    /\ term_call[1].skills # target_skills[1]

\* C10 (as claimed): the skill passed to low_policy.predict is
\* target_skills[cur_skill_pos] for cur_skill_pos after the iteration's
\* advancement decision.
C10_PolicySeesNewSkill ==
    policy_call # <<>> => policy_call[1].skills = SkillAt(cur_skill_pos)

\* C10 (amended): the skill passed to low_policy.predict is
\* target_skills[cur_skill_pos] for cur_skill_pos before the iteration's
\* advancement decision (the last entry of ep_skills), so a newly selected
\* skill is first used by the action of the following iteration.
C10_PolicySeesPreviousSkill ==
    [][ IsIteration =>
          /\ policy_call'[1].skills = SkillAt(cur_skill_pos)
          /\ policy_call'[1].skills = ep_skills_last ]_vars

\* C10 witness: the index advanced in the last iteration, whose action was
\* computed with the skill before the advance.
C10_Witness ==
    /\ policy_call # <<>>
    /\ cur_skill_pos >= 1
    /\ policy_call[1].skills = SkillAt(cur_skill_pos - 1)
    /\ skill = SkillAt(cur_skill_pos)

(* Claims about preprocess_h5py_trajectory.                                *)
(***************************************************************************)
\* C5: for every raw skills_done of length L and every index k with
\* skills_done[k] = 1, also for k < 4 and k > L - 5, the result is 1 exactly on
\* the clipped window [max(0, k-4), min(L-1, k+4)], and every position outside
\* all such windows keeps its raw value.
C5_DoneDilationClipped ==
    dataset.status = "ok" =>
        LET raw == trajectory.skills_done
            aug == dataset.skills_done
        IN  /\ Len(aug) = Len(raw)
            /\ \A i \in 1..Len(raw) :
                 aug[i] = IF \E k \in 1..Len(raw) :
                                /\ raw[k] = 1
                                /\ k - 4 <= i
                                /\ i <= k + 4
                          THEN 1 ELSE raw[i]

\* C5 witness: a completion within the first 4 timesteps of a trajectory of
\* at least 9 timesteps has been dilated.
C5_Witness ==
    /\ dataset.status = "ok"
    /\ Len(trajectory.skills_done) >= 9
    /\ \E k \in 1..4 : trajectory.skills_done[k] = 1

\* The first position of the maximal run of equal skills_idxs that holds i.
RunStart(idxs, i) ==
    CHOOSE s \in 1..i :
        /\ \A j \in s..i : idxs[j] = idxs[i]
        /\ (s = 1 \/ idxs[s - 1] # idxs[i])

\* C9: first_observations is as long as observations, first_observations[i]
\* is observations[s] for the start s of the maximal run of equal skills_idxs
\* that holds i, and hence first_observations[i] = first_observations[i-1]
\* wherever skills_idxs[i] = skills_idxs[i-1].
C9_FirstObservations ==
    dataset.status = "ok" =>
        LET idxs == trajectory.skills_idxs
            obs == trajectory.observations
            fo == dataset.first_observations
        IN  /\ Len(fo) = Len(obs)
            /\ \A i \in 1..Len(obs) : fo[i] = obs[RunStart(idxs, i)]
            /\ \A i \in 2..Len(obs) : idxs[i] = idxs[i - 1] => fo[i] = fo[i - 1]

\* C9 witness: a trajectory of three segments, the second of which is longer
\* than one timestep, has been preprocessed.
C9_Witness ==
    /\ dataset.status = "ok"
    /\ trajectory.skills_idxs = <<0, 1, 1, 1, 0>>
    /\ trajectory.observations = <<1, 2, 3, 4, 5>>
    /\ dataset.first_observations = <<1, 2, 2, 2, 5>>

(***************************************************************************)
(* Claims about the buffer.                                                *)
(***************************************************************************)
\* C6: for every sampled episode with len(episode) >= subseq_len the start
\* indices _get_samples can draw are exactly 0..len(episode) - subseq_len: every
\* drawn start has start + subseq_len <= len(episode), the largest offset can be
\* drawn, and an episode as long as subseq_len is sampled with start 0 rather
\* than failing.
C6_StartRangeInclusive ==
    sample # <<>> =>
        LET s == sample[1]
            lens == [i \in DOMAIN s.batch_inds |-> episodes[s.batch_inds[i]].length]
        IN  /\ \A i \in DOMAIN lens :
                 lens[i] >= subseq_len =>
                    RandInt(0, lens[i] - subseq_len) = 0..(lens[i] - subseq_len)
            /\ IF \A i \in DOMAIN lens : lens[i] >= subseq_len
               THEN /\ s.status = "ok"
                    /\ \A i \in DOMAIN lens : s.start_idxs[i] + subseq_len <= lens[i]
               ELSE s.status = "raised"

\* C6 witness: a batch whose episodes are all at least subseq_len long, one of
\* them exactly, has been asked for.
C6_Witness ==
    /\ sample # <<>>
    /\ \A i \in DOMAIN sample[1].batch_inds :
          episodes[sample[1].batch_inds[i]].length >= subseq_len
    /\ \E i \in DOMAIN sample[1].batch_inds :
          episodes[sample[1].batch_inds[i]].length = subseq_len

\* C7: when a trajectory record lacks any of the required fields,
\* add_episodes_from_h5py fails for that record before any Episode for it is
\* added to the buffer, and the error names exactly the required fields that
\* are absent from the record.
C7_MissingFieldsNamed ==
    (last_load # <<>> /\ ~(MUST_LOADED_COMPONENTS \subseteq last_load[1].file.keys)) =>
        /\ error # <<>>
        /\ error[1].status = "raised"
        /\ pending = 0
        /\ Len(episodes) = last_load[1].n_episodes
        /\ error[1].fields = MUST_LOADED_COMPONENTS \ last_load[1].file.keys

\* C7 witness: a record without skills_done, and with the operator tag, has
\* been loaded.
C7_Witness ==
    /\ last_load # <<>>
    /\ last_load[1].file.keys = (MUST_LOADED_COMPONENTS \ {"skills_done"}) \cup {"operator"}
    /\ error # <<>>

\* the number of skills of a zero-padded skill sequence
TrueSkillCount(skills) == Cardinality({i \in DOMAIN skills : skills[i] # 0})

====
